---- MODULE Spec2Model ----
(***************************************************************************)
(* Style commands of src/library/text.rs (font, par, lang, strike,         *)
(* underline, overline): argument coercion at invocation, the deferred     *)
(* template each command returns, and the execution of templates against   *)
(* the style state of the execution context.                               *)
(***************************************************************************)
EXTENDS Integers, Sequences, FiniteSets, TLC

VARIABLES phase, doc, calls, diags, state, stack, parbreaks, castIn, castOut

vars == <<phase, doc, calls, diags, state, stack, parbreaks, castIn, castOut>>

(* ---------------- bounds ---------------- *)
MaxCalls == 2
MaxLen == 3

(* ---------------- Option<T> ---------------- *)
None == <<>>
Some(v) == <<v>>
IsSome(o) == Len(o) = 1
Get(o) == o[1]
(* Option::or *)
OrElse(a, b) == IF IsSome(a) THEN a ELSE b

(* ---------------- strings ---------------- *)
UpperChars == <<"A","B","C","D","E","F","G","H","I","J","K","L","M",
                "N","O","P","Q","R","S","T","U","V","W","X","Y","Z">>
LowerChars == <<"a","b","c","d","e","f","g","h","i","j","k","l","m",
                "n","o","p","q","r","s","t","u","v","w","x","y","z">>
LowerChar(c) ==
    IF \E i \in 1..26 : UpperChars[i] = c
    THEN LowerChars[CHOOSE i \in 1..26 : UpperChars[i] = c]
    ELSE c
(* str::to_lowercase / to_ascii_lowercase on a string of characters *)
to_lowercase(s) == [i \in 1..Len(s) |-> LowerChar(s[i])]

Times == <<"T","i","m","e","s">>
Georgia == <<"G","e","o","r","g","i","a">>
times == <<"t","i","m","e","s">>
georgia == <<"g","e","o","r","g","i","a">>

(* ---------------- dynamic values ---------------- *)
StrV(s) == [t |-> "str", s |-> s, n |-> 0, a |-> <<>>, g |-> ""]
IntV(n) == [t |-> "int", s |-> <<>>, n |-> n, a |-> <<>>, g |-> ""]
(* a dynamic value holding a FontFamily (the generic classes) *)
FamilyV(g) == [t |-> "family", s |-> <<>>, n |-> 0, a |-> <<>>, g |-> g]
ArrayV(a) == [t |-> "array", s |-> <<>>, n |-> 0, a |-> a, g |-> ""]

Named(s) == [kind |-> "Named", name |-> s]
Generic(g) == [kind |-> g, name |-> <<>>]

(* castable! FontFamily: a string is a named family; a value that already
   holds a FontFamily casts to itself *)
CastFontFamily(v) ==
    IF v.t = "str" THEN Some(Named(to_lowercase(v.s)))
    ELSE IF v.t = "family" THEN Some(Generic(v.g))
    ELSE None

(* cast of a value to EcoString *)
CastString(v) == IF v.t = "str" THEN Some(v.s) ELSE None

(* filter_map(|v| v.cast().ok()).collect() with FontFamily as the target *)
RECURSIVE FilterFamilies(_)
FilterFamilies(xs) ==
    IF xs = <<>> THEN <<>>
    ELSE LET r == CastFontFamily(Head(xs)) IN
         (IF IsSome(r) THEN <<Get(r)>> ELSE <<>>) \o FilterFamilies(Tail(xs))

(* filter_map(|v| v.cast().ok()) with EcoString as the target *)
RECURSIVE FilterStrings(_)
FilterStrings(xs) ==
    IF xs = <<>> THEN <<>>
    ELSE LET r == CastString(Head(xs)) IN
         (IF IsSome(r) THEN <<Get(r)>> ELSE <<>>) \o FilterStrings(Tail(xs))

(* castable! FontDef *)
CastFontDef(v) ==
    IF v.t = "str" THEN Some(<<Named(to_lowercase(v.s))>>)
    ELSE IF v.t = "array" THEN Some(FilterFamilies(v.a))
    ELSE IF v.t = "family" THEN Some(<<Generic(v.g)>>)
    ELSE None

LowerAll(xs) == [i \in 1..Len(xs) |-> to_lowercase(xs[i])]

(* a strict array rule: one ill-typed element fails the whole cast *)
CastFamilyDefStrict(v) ==
    IF v.t = "str" THEN Some(<<to_lowercase(v.s)>>)
    ELSE IF v.t = "array" THEN
        (IF \A i \in 1..Len(v.a) : v.a[i].t = "str"
         THEN Some(LowerAll(FilterStrings(v.a)))
         ELSE None)
    ELSE None

(* castable! FamilyDef *)
CastFamilyDef(v) ==
    IF v.t = "str" THEN Some(<<to_lowercase(v.s)>>)
    ELSE IF v.t = "array" THEN Some(LowerAll(FilterStrings(v.a)))
    ELSE None

(* args.named::<FontDef>(ctx, name): absent or failed cast is None *)
NamedFontDef(o) == IF IsSome(o) THEN CastFontDef(Get(o)) ELSE None
(* args.named::<FamilyDef>(ctx, name) *)
NamedFamilyDef(o) == IF IsSome(o) THEN CastFamilyDef(Get(o)) ELSE None

(* ---------------- lengths ---------------- *)
(* Linear: a relative part (in percent) plus an absolute part *)
Lin(rel, abs) == [rel |-> rel, abs |-> abs]
Resolve(lin, one) == (lin.rel * one) \div 100 + lin.abs
IsZero(lin) == lin.rel = 0 /\ lin.abs = 0

(* ---------------- directions ---------------- *)
Axis(dir) == IF dir \in {"LTR", "RTL"} THEN "Horizontal" ELSE "Vertical"

lang_dir(iso) ==
    LET s == to_lowercase(iso) IN
    IF s \in {<<"a","r">>, <<"h","e">>, <<"f","a">>, <<"u","r">>, <<"p","s">>, <<"y","i">>}
    THEN "RTL"
    ELSE IF s \in {<<"e","n">>, <<"f","r">>, <<"d","e">>} THEN "LTR"
    ELSE "LTR"

PaintColor(c) == [paint |-> "Color", color |-> c]

(* ---------------- style state ---------------- *)
DefaultSize == 11
DefaultState ==
    [font |-> [size |-> DefaultSize,
               families |-> [list |-> <<Generic("Serif")>>,
                             serif |-> <<<<"e","b">>>>,
                             sans_serif |-> <<<<"p","t">>>>,
                             monospace |-> <<<<"m","o">>>>],
               variant |-> [style |-> "normal", weight |-> 400, stretch |-> 100],
               top_edge |-> "cap-height",
               bottom_edge |-> "baseline",
               fill |-> PaintColor("black"),
               strikethrough |-> None,
               underline |-> None,
               overline |-> None],
     par |-> [spacing |-> Lin(100, 0), leading |-> Lin(50, 0), word_spacing |-> Lin(25, 0)],
     lang |-> [dir |-> "LTR"]]

(* ---------------- templates ---------------- *)
(* A template is a sequence of function nodes.  A node is the closure a
   command returned: cmd names the command, cap holds what the closure
   captured, body is the captured body template.  args and hasBody record
   the arguments of the invocation the node came from. *)
Node(cmd, args, hasBody, cap, body) ==
    [cmd |-> cmd, args |-> args, hasBody |-> hasBody, cap |-> cap, body |-> body]

(* args.expect::<Template>(ctx, "body").unwrap_or_default() *)
unwrap_or_default(bodyArg) == IF IsSome(bodyArg) THEN Get(bodyArg) ELSE <<>>

(* Value::template(closure): a template of one function node *)
ValueTemplate(node) == <<node>>

(* args.all(): every positional argument that casts to a FontFamily *)
AllFamilies(pos) == FilterFamilies(pos)

(* ---------------- font ---------------- *)
FontArgs0 ==
    [pos |-> <<>>, family |-> None, psize |-> None, size |-> None,
     style |-> None, weight |-> None, stretch |-> None,
     top_edge |-> None, bottom_edge |-> None, fill |-> None,
     serif |-> None, sans_serif |-> None, monospace |-> None]

FontCalls ==
    { FontArgs0,
      [FontArgs0 EXCEPT !.size = Some(Lin(0, 12))],
      [FontArgs0 EXCEPT !.psize = Some(Lin(0, 14)), !.size = Some(Lin(0, 12))],
      [FontArgs0 EXCEPT !.size = Some(Lin(200, 0))],
      [FontArgs0 EXCEPT !.pos = <<StrV(Times), FamilyV("SansSerif")>>,
                        !.family = Some(StrV(Georgia))],
      [FontArgs0 EXCEPT !.family = Some(ArrayV(<<FamilyV("Monospace"), StrV(Times), IntV(3)>>))],
      [FontArgs0 EXCEPT !.serif = Some(ArrayV(<<StrV(Times), StrV(Georgia)>>))],
      [FontArgs0 EXCEPT !.style = Some("italic"), !.weight = Some(700),
                        !.stretch = Some(75), !.top_edge = Some("ascender"),
                        !.bottom_edge = Some("descender"), !.fill = Some("red"),
                        !.sans_serif = Some(StrV(Georgia)),
                        !.monospace = Some(IntV(3))] }

(* the options font captures, lines 11-27 *)
FontCap(a) ==
    LET families == AllFamilies(a.pos) IN
    [list |-> IF families = <<>> THEN NamedFontDef(a.family) ELSE Some(families),
     size |-> OrElse(a.psize, a.size),
     style |-> a.style, weight |-> a.weight, stretch |-> a.stretch,
     top_edge |-> a.top_edge, bottom_edge |-> a.bottom_edge, fill |-> a.fill,
     serif |-> NamedFamilyDef(a.serif),
     sans_serif |-> NamedFamilyDef(a.sans_serif),
     monospace |-> NamedFamilyDef(a.monospace)]

(* a font that gives up when the body is missing *)
fontRequiresBody(a, bodyArg) ==
    IF IsSome(bodyArg)
    THEN ValueTemplate(Node("font", a, TRUE, FontCap(a), Get(bodyArg)))
    ELSE <<>>

font(a, bodyArg) ==
    ValueTemplate(Node("font", a, IsSome(bodyArg), FontCap(a), unwrap_or_default(bodyArg)))

(* a size resolved when the command is invoked, against the default size *)
FontSizeAtInvocation(cap, f) ==
    IF IsSome(cap.size) THEN Resolve(Get(cap.size), DefaultSize) ELSE f.size

(* the size the font closure writes, lines 33-35 *)
FontSize(cap, f) == IF IsSome(cap.size) THEN Resolve(Get(cap.size), f.size) ELSE f.size

(* the writes of the font closure, lines 31-75 *)
FontApply(cap, st) ==
    LET f == st.font
        fam == f.families
        Set(o, old) == IF IsSome(o) THEN Get(o) ELSE old
    IN [st EXCEPT !.font =
         [f EXCEPT
            !.size = FontSize(cap, f),
            !.families = [list |-> Set(cap.list, fam.list),
                          serif |-> Set(cap.serif, fam.serif),
                          sans_serif |-> Set(cap.sans_serif, fam.sans_serif),
                          monospace |-> Set(cap.monospace, fam.monospace)],
            !.variant = [style |-> Set(cap.style, f.variant.style),
                         weight |-> Set(cap.weight, f.variant.weight),
                         stretch |-> Set(cap.stretch, f.variant.stretch)],
            !.top_edge = Set(cap.top_edge, f.top_edge),
            !.bottom_edge = Set(cap.bottom_edge, f.bottom_edge),
            !.fill = IF IsSome(cap.fill) THEN PaintColor(Get(cap.fill)) ELSE f.fill]]

(* ---------------- par ---------------- *)
ParArgs0 == [spacing |-> None, leading |-> None, word_spacing |-> None]

ParCalls ==
    { ParArgs0,
      [ParArgs0 EXCEPT !.spacing = Some(Lin(0, 20))],
      [ParArgs0 EXCEPT !.leading = Some(Lin(0, 7)), !.word_spacing = Some(Lin(50, 0))] }

ParCap(a) == [spacing |-> a.spacing, leading |-> a.leading, word_spacing |-> a.word_spacing]

par(a, bodyArg) ==
    ValueTemplate(Node("par", a, IsSome(bodyArg), ParCap(a), unwrap_or_default(bodyArg)))

(* the writes of the par closure, lines 142-152 *)
ParApply(cap, st) ==
    LET Set(o, old) == IF IsSome(o) THEN Get(o) ELSE old IN
    [st EXCEPT !.par = [spacing |-> Set(cap.spacing, st.par.spacing),
                        leading |-> Set(cap.leading, st.par.leading),
                        word_spacing |-> Set(cap.word_spacing, st.par.word_spacing)]]

(* ---------------- lang ---------------- *)
LangArgs0 == [iso |-> None, dir |-> None]

LangCalls ==
    { LangArgs0,
      [LangArgs0 EXCEPT !.iso = Some(<<"A","R">>)],
      [LangArgs0 EXCEPT !.dir = Some("RTL")],
      [LangArgs0 EXCEPT !.dir = Some("TTB")],
      [LangArgs0 EXCEPT !.iso = Some(<<"h","e">>), !.dir = Some("BTT")],
      [LangArgs0 EXCEPT !.iso = Some(<<"a","r">>), !.dir = Some("LTR")] }

(* a dir taken without the axis check *)
LangDirAny(a) == a.dir

(* the match on the named dir argument, lines 162-169 *)
LangDir(a) ==
    IF IsSome(a.dir) /\ Axis(Get(a.dir)) = "Horizontal" THEN a.dir ELSE None

(* a vertical dir dropped silently *)
LangDiagsNone(a) == 0

(* ctx.diag(...) of line 165: the diagnostics the invocation records *)
LangDiags(a) ==
    IF IsSome(a.dir) /\ Axis(Get(a.dir)) # "Horizontal" THEN 1 ELSE 0

LangCap(a) ==
    [iso |-> IF IsSome(a.iso) THEN Some(lang_dir(Get(a.iso))) ELSE None,
     dir |-> LangDir(a)]

lang(a, bodyArg) ==
    ValueTemplate(Node("lang", a, IsSome(bodyArg), LangCap(a), unwrap_or_default(bodyArg)))

(* the write of the lang closure, lines 173-175 *)
LangApply(cap, st) ==
    LET d == OrElse(cap.dir, cap.iso) IN
    IF IsSome(d) THEN [st EXCEPT !.lang.dir = Get(d)] ELSE st

(* ---------------- strike, underline, overline ---------------- *)
LineArgs0 ==
    [pstroke |-> None, stroke |-> None, pthickness |-> None, thickness |-> None,
     offset |-> None, extent |-> None]

LineCalls ==
    { LineArgs0,
      [LineArgs0 EXCEPT !.stroke = Some("red"), !.thickness = Some(Lin(0, 0)),
                        !.offset = Some(Lin(0, 1)), !.extent = Some(Lin(0, 3))],
      [LineArgs0 EXCEPT !.pthickness = Some(Lin(0, 2)), !.thickness = Some(Lin(0, 0))],
      [LineArgs0 EXCEPT !.pstroke = Some("blue"), !.stroke = Some("red"),
                        !.extent = Some(Lin(0, 3))] }

LineCmds == {"strike", "underline", "overline"}

(* the decoration slot each command selects, lines 193, 198, 203 *)
Substate(cmd) ==
    CASE cmd = "strike" -> "strikethrough"
      [] cmd = "underline" -> "underline"
      [] cmd = "overline" -> "overline"

LineStroke(a) == OrElse(a.pstroke, a.stroke)
LineThickness(a) == OrElse(a.pthickness, a.thickness)
(* unwrap_or_default of the extent argument *)
LineExtent(a) == IF IsSome(a.extent) THEN Get(a.extent) ELSE Lin(0, 0)

(* a descriptor built whatever the thickness *)
LineCapAlways(a) ==
    [state |->
       Some([stroke |-> IF IsSome(LineStroke(a)) THEN Some(PaintColor(Get(LineStroke(a)))) ELSE None,
             thickness |-> LineThickness(a),
             offset |-> a.offset,
             extent |-> LineExtent(a)])]

(* the descriptor line_impl builds, lines 211-225 *)
LineCap(a) ==
    LET stroke == LineStroke(a)
        thickness == LineThickness(a)
    IN [state |->
          IF (IF IsSome(thickness) THEN ~IsZero(Get(thickness)) ELSE TRUE)
          THEN Some([stroke |-> IF IsSome(stroke) THEN Some(PaintColor(Get(stroke))) ELSE None,
                     thickness |-> thickness,
                     offset |-> a.offset,
                     extent |-> LineExtent(a)])
          ELSE None]

line_impl(cmd, a, bodyArg) ==
    ValueTemplate(Node(cmd, a, IsSome(bodyArg), LineCap(a), unwrap_or_default(bodyArg)))

(* a write that reaches all three decoration slots *)
LineApplyAll(cmd, cap, st) ==
    [st EXCEPT !.font = [st.font EXCEPT !.strikethrough = cap.state,
                                        !.underline = cap.state,
                                        !.overline = cap.state]]

(* the write of the line_impl closure, line 228 *)
LineApply(cmd, cap, st) ==
    [st EXCEPT !.font = [st.font EXCEPT ![Substate(cmd)] = cap.state]]

(* the writes of a node's closure that precede its body *)
Apply(node, st) ==
    CASE node.cmd = "font" -> FontApply(node.cap, st)
      [] node.cmd = "par" -> ParApply(node.cap, st)
      [] node.cmd = "lang" -> LangApply(node.cap, st)
      [] node.cmd \in LineCmds -> LineApply(node.cmd, node.cap, st)

(* a closure that goes straight to its body *)
AfterApplyNoBreak(cmd) == "body"

(* where the closure continues after its writes: par and lang call
   ctx.parbreak() before the body, lines 154 and 177 *)
AfterApply(cmd) == IF cmd \in {"par", "lang"} THEN "parbreak" ELSE "body"

(* ---------------- evaluation: command invocations ---------------- *)
NoCast == [target |-> "none", out |-> None]

Init ==
    /\ phase = "eval"
    /\ doc = <<>>
    /\ calls = 0
    /\ diags = 0
    /\ state = DefaultState
    /\ stack = <<>>
    /\ parbreaks = 0
    /\ castIn = IntV(0)
    /\ castOut = NoCast

(* The body argument of a call: missing, or the content built so far.  A
   call with a body wraps that content; a call without one follows it. *)
BodyArgs == {None, Some(doc)}
Place(bodyArg, tpl) == IF IsSome(bodyArg) THEN tpl ELSE doc \o tpl

Invoke(tpl, bodyArg, newDiags) ==
    /\ phase = "eval"
    /\ calls < MaxCalls
    /\ calls' = calls + 1
    /\ doc' = Place(bodyArg, tpl)
    /\ diags' = diags + newDiags
    /\ UNCHANGED <<phase, state, stack, parbreaks, castIn, castOut>>

Font == \E a \in FontCalls, b \in BodyArgs : Invoke(font(a, b), b, 0)
Par == \E a \in ParCalls, b \in BodyArgs : Invoke(par(a, b), b, 0)
Lang == \E a \in LangCalls, b \in BodyArgs : Invoke(lang(a, b), b, LangDiags(a))
Strike == \E a \in LineCalls, b \in BodyArgs : Invoke(line_impl("strike", a, b), b, 0)
Underline == \E a \in LineCalls, b \in BodyArgs : Invoke(line_impl("underline", a, b), b, 0)
Overline == \E a \in LineCalls, b \in BodyArgs : Invoke(line_impl("overline", a, b), b, 0)

(* ---------------- execution of templates ---------------- *)
(* A frame is one template being executed: func is the function node whose
   closure runs (None for the document itself), snap the state saved when
   the node was entered, pc the closure's position, tpl and i the body and
   the next node of it, breaks the paragraph breaks the closure triggered. *)
Frame(func, snap, pc, tpl) ==
    [func |-> func, snap |-> snap, pc |-> pc, tpl |-> tpl, i |-> 1, breaks |-> 0]

Top == stack[Len(stack)]
SetTop(f) == [stack EXCEPT ![Len(stack)] = f]
Pop == SubSeq(stack, 1, Len(stack) - 1)

(* no state comes back *)
RestoreNothing(snap, st) == st
(* only the paragraph and language state come back *)
RestoreParLang(snap, st) == [st EXCEPT !.par = snap.par, !.lang = snap.lang]

(* the state a function node leaves behind: the snapshot taken on entry *)
Restore(snap, st) == snap

StartExec ==
    /\ phase = "eval"
    /\ phase' = "exec"
    /\ state' = DefaultState
    /\ stack' = <<Frame(None, DefaultState, "body", doc)>>
    /\ UNCHANGED <<doc, calls, diags, parbreaks, castIn, castOut>>

(* executing a function node: save the state, then run the closure *)
EnterFunc ==
    /\ phase = "exec"
    /\ Top.pc = "body"
    /\ Top.i <= Len(Top.tpl)
    /\ LET node == Top.tpl[Top.i] IN
       stack' = Append(stack, Frame(Some(node), state, "apply", node.body))
    /\ UNCHANGED <<phase, doc, calls, diags, state, parbreaks, castIn, castOut>>

(* the closure's option writes *)
ApplyOptions ==
    /\ phase = "exec"
    /\ Top.pc = "apply"
    /\ LET node == Get(Top.func) IN
       /\ state' = Apply(node, state)
       /\ stack' = SetTop([Top EXCEPT !.pc = AfterApply(node.cmd)])
    /\ UNCHANGED <<phase, doc, calls, diags, parbreaks, castIn, castOut>>

(* ctx.parbreak() *)
Parbreak ==
    /\ phase = "exec"
    /\ Top.pc = "parbreak"
    /\ parbreaks' = parbreaks + 1
    /\ stack' = SetTop([Top EXCEPT !.pc = "body", !.breaks = @ + 1])
    /\ UNCHANGED <<phase, doc, calls, diags, state, castIn, castOut>>

(* the body is done: the closure returns and the saved state comes back *)
ExitFunc ==
    /\ phase = "exec"
    /\ Len(stack) > 1
    /\ Top.pc = "body"
    /\ Top.i > Len(Top.tpl)
    /\ state' = Restore(Top.snap, state)
    /\ LET parent == stack[Len(stack) - 1] IN
       stack' = [Pop EXCEPT ![Len(stack) - 1] = [parent EXCEPT !.i = @ + 1]]
    /\ UNCHANGED <<phase, doc, calls, diags, parbreaks, castIn, castOut>>

Finish ==
    /\ phase = "exec"
    /\ Len(stack) = 1
    /\ Top.i > Len(Top.tpl)
    /\ phase' = "done"
    /\ UNCHANGED <<doc, calls, diags, state, stack, parbreaks, castIn, castOut>>

Next ==
    \/ Font \/ Par \/ Lang \/ Strike \/ Underline \/ Overline
    \/ StartExec \/ EnterFunc \/ ApplyOptions \/ Parbreak \/ ExitFunc \/ Finish

Spec == Init /\ [][Next]_vars

(* ---------------- coercion of single values ---------------- *)
CastElems ==
    { StrV(Times), StrV(Georgia), StrV(<<"A","b">>), IntV(3), FamilyV("Serif"),
      ArrayV(<<StrV(Times)>>) }

RECURSIVE SeqsUpTo(_, _)
SeqsUpTo(S, n) ==
    IF n = 0 THEN {<<>>}
    ELSE LET R == SeqsUpTo(S, n - 1) IN
         R \cup {Append(r, x) : r \in {q \in R : Len(q) = n - 1}, x \in S}

CastValues == CastElems \cup {ArrayV(a) : a \in SeqsUpTo(CastElems, MaxLen)}

InitCast ==
    /\ phase = "cast"
    /\ doc = <<>>
    /\ calls = 0
    /\ diags = 0
    /\ state = DefaultState
    /\ stack = <<>>
    /\ parbreaks = 0
    /\ castIn \in CastValues
    /\ castOut = NoCast

CastAs(target, out) ==
    /\ phase = "cast"
    /\ castOut' = [target |-> target, out |-> out]
    /\ UNCHANGED <<phase, doc, calls, diags, state, stack, parbreaks, castIn>>

AsFontDef == CastAs("FontDef", CastFontDef(castIn))
AsFamilyDef == CastAs("FamilyDef", CastFamilyDef(castIn))
(* the serif list the body of font(serif: castIn) sees from the defaults *)
AsFontSerif ==
    CastAs("serif",
           Some(FontApply(FontCap([FontArgs0 EXCEPT !.serif = Some(castIn)]),
                          DefaultState).font.families.serif))

NextCast == AsFontDef \/ AsFamilyDef \/ AsFontSerif

SpecCast == InitCast /\ [][NextCast]_vars

(* ---------------- properties ---------------- *)
Running == phase \in {"exec", "done"}
(* the top frame is a function node whose closure has made its writes *)
InBody == Running /\ IsSome(Top.func) /\ Top.pc # "apply"
TopNode == Get(Top.func)

RECURSIVE CountNodes(_, _)
CountNodes(P(_), tpl) ==
    IF tpl = <<>> THEN 0
    ELSE (IF P(Head(tpl)) THEN 1 ELSE 0)
         + CountNodes(P, Head(tpl).body) + CountNodes(P, Tail(tpl))

AnyNode(n) == TRUE
IsVerticalCall(n) == n.cmd = "lang" /\ IsSome(n.args.dir) /\ Axis(Get(n.args.dir)) = "Vertical"
IsBreaking(n) == n.cmd \in {"par", "lang"}

(* C1: whenever a template (the document or the body of a function node) is
   between two of its nodes, every nested function node executed so far
   having completed, the style state is the state that template started
   with: the default state for the document, the state its closure set up
   for a body.  A completed node leaves nothing behind for its siblings. *)
C1_ScopeRevert ==
    (Running /\ Top.pc = "body") =>
        state = (IF IsSome(Top.func) THEN Apply(TopNode, Top.snap) ELSE Top.snap)

W_C1 ==
    /\ phase = "done"
    /\ Len(doc) = 1
    /\ doc[1].cmd = "font"
    /\ doc[1].cap.size = Some(Lin(0, 12))
    /\ Len(doc[1].body) = 1
    /\ doc[1].body[1].cmd = "font"
    /\ doc[1].body[1].cap.size = Some(Lin(0, 14))
    /\ state.font.size = DefaultSize

NoOptions(n) ==
    CASE n.cmd = "font" -> n.args = FontArgs0
      [] n.cmd = "par" -> n.args = ParArgs0
      [] n.cmd = "lang" -> n.args = LangArgs0
      [] n.cmd \in LineCmds -> n.args = LineArgs0

Returns == Running /\ Len(stack) > 1 /\ Len(stack') = Len(stack) - 1

(* C2: when a function node invoked with no options returns, the font,
   paragraph and language state are what they were when it was entered. *)
C2_Identity ==
    [][(Returns /\ NoOptions(TopNode)) => state' = Top.snap]_vars

W_C2 ==
    /\ Running /\ Top.pc = "body" /\ Top.i = 2
    /\ Top.tpl[1].cmd = "strike"
    /\ NoOptions(Top.tpl[1])
    /\ IsSome(state.font.strikethrough)
    /\ Get(state.font.strikethrough).stroke # None

(* the field of a decoration slot, None when the slot is empty *)
SlotField(slot, f) == IF IsSome(slot) THEN Some(Get(slot)[f]) ELSE None

FontAbsentInherit(a, old, new) ==
    /\ (AllFamilies(a.pos) = <<>> /\ a.family = None) => new.families.list = old.families.list
    /\ (a.psize = None /\ a.size = None) => new.size = old.size
    /\ a.style = None => new.variant.style = old.variant.style
    /\ a.weight = None => new.variant.weight = old.variant.weight
    /\ a.stretch = None => new.variant.stretch = old.variant.stretch
    /\ a.top_edge = None => new.top_edge = old.top_edge
    /\ a.bottom_edge = None => new.bottom_edge = old.bottom_edge
    /\ a.fill = None => new.fill = old.fill
    /\ a.serif = None => new.families.serif = old.families.serif
    /\ a.sans_serif = None => new.families.sans_serif = old.families.sans_serif
    /\ a.monospace = None => new.families.monospace = old.families.monospace
    /\ new.strikethrough = old.strikethrough
    /\ new.underline = old.underline
    /\ new.overline = old.overline

ParAbsentInherit(a, old, new) ==
    /\ a.spacing = None => new.spacing = old.spacing
    /\ a.leading = None => new.leading = old.leading
    /\ a.word_spacing = None => new.word_spacing = old.word_spacing

LangAbsentInherit(a, old, new) ==
    (a.iso = None /\ a.dir = None) => new.dir = old.dir

(* what font, par and lang leave alone *)
AbsentInherit(n, old, new) ==
    CASE n.cmd = "font" ->
            FontAbsentInherit(n.args, old.font, new.font) /\ new.par = old.par /\ new.lang = old.lang
      [] n.cmd = "par" ->
            ParAbsentInherit(n.args, old.par, new.par) /\ new.font = old.font /\ new.lang = old.lang
      [] n.cmd = "lang" ->
            LangAbsentInherit(n.args, old.lang, new.lang) /\ new.font = old.font /\ new.par = old.par
      [] n.cmd \in LineCmds -> TRUE

(* the original reading for the decoration commands: where a descriptor was
   inherited and one is in place, an absent option keeps the inherited value *)
LineAbsentInherit(n, old, new) ==
    LET a == n.args
        o == old.font[Substate(n.cmd)]
        s == new.font[Substate(n.cmd)]
    IN (IsSome(o) /\ IsSome(s)) =>
          /\ LineStroke(a) = None => Get(s).stroke = Get(o).stroke
          /\ LineThickness(a) = None => Get(s).thickness = Get(o).thickness
          /\ a.offset = None => Get(s).offset = Get(o).offset
          /\ a.extent = None => Get(s).extent = Get(o).extent

(* what the decoration commands do: the slot is replaced as a whole, absent
   options are unset (extent: zero) in the new descriptor, and everything
   outside the slot is inherited *)
LineAbsentUnset(n, old, new) ==
    LET a == n.args
        s == new.font[Substate(n.cmd)]
    IN /\ \A other \in {"strikethrough", "underline", "overline"} \ {Substate(n.cmd)} :
              new.font[other] = old.font[other]
       /\ new.font.size = old.font.size
       /\ new.font.families = old.font.families
       /\ new.font.variant = old.font.variant
       /\ new.font.top_edge = old.font.top_edge
       /\ new.font.bottom_edge = old.font.bottom_edge
       /\ new.font.fill = old.font.fill
       /\ new.par = old.par
       /\ new.lang = old.lang
       /\ IsSome(s) =>
            /\ LineStroke(a) = None => Get(s).stroke = None
            /\ LineThickness(a) = None => Get(s).thickness = None
            /\ a.offset = None => Get(s).offset = None
            /\ a.extent = None => Get(s).extent = Lin(0, 0)

(* C3 as stated: for every command, an absent option has in the body the
   value the context held before the template was executed. *)
C3_AbsentInherit_Original ==
    InBody =>
        /\ AbsentInherit(TopNode, Top.snap, state)
        /\ TopNode.cmd \in LineCmds => LineAbsentInherit(TopNode, Top.snap, state)

(* C3 amended: font, par and lang write only the options that were set (for
   lang: the direction is written when a language code or a dir is given);
   strike, underline and overline replace their slot as a whole, so absent
   stroke, thickness and offset are unset and an absent extent is zero in
   the descriptor the body sees, while the rest of the state is inherited. *)
C3_AbsentInherit ==
    InBody =>
        /\ AbsentInherit(TopNode, Top.snap, state)
        /\ TopNode.cmd \in LineCmds => LineAbsentUnset(TopNode, Top.snap, state)

W_C3 ==
    /\ InBody
    /\ TopNode.cmd = "strike"
    /\ LineStroke(TopNode.args) = None
    /\ LineThickness(TopNode.args) = Some(Lin(0, 2))
    /\ SlotField(Top.snap.font.strikethrough, "stroke") = Some(Some(PaintColor("blue")))
    /\ SlotField(state.font.strikethrough, "stroke") = Some(None)

Slots == {"strikethrough", "underline", "overline"}

(* C4: with a thickness of exactly zero the slot is empty during the body;
   with a non-zero thickness and no stroke it holds a descriptor with the
   stroke unset and that thickness; no slot ever holds a descriptor whose
   thickness is zero. *)
C4_ZeroThickness ==
    /\ (InBody /\ TopNode.cmd \in LineCmds) =>
         LET t == LineThickness(TopNode.args)
             s == state.font[Substate(TopNode.cmd)]
         IN /\ (IsSome(t) /\ IsZero(Get(t))) => s = None
            /\ (IsSome(t) /\ ~IsZero(Get(t)) /\ LineStroke(TopNode.args) = None) =>
                  /\ IsSome(s)
                  /\ Get(s).stroke = None
                  /\ Get(s).thickness = t
    /\ Running =>
         \A f \in Slots :
            IsSome(state.font[f]) =>
               ~(IsSome(Get(state.font[f]).thickness) /\ IsZero(Get(Get(state.font[f]).thickness)))

W_C4 ==
    /\ InBody
    /\ TopNode.cmd = "strike"
    /\ TopNode.args.stroke = Some("red")
    /\ LineThickness(TopNode.args) = Some(Lin(0, 0))
    /\ IsSome(Top.snap.font.strikethrough)
    /\ state.font.strikethrough = None

LangChecks ==
    /\ diags = CountNodes(IsVerticalCall, doc)
    /\ calls = CountNodes(AnyNode, doc)

(* C5 as stated: a lang call with a vertical dir records one diagnostic,
   returns its template, and the direction in the body is the one the
   context had before, with or without a language code. *)
C5_VerticalDir_Original ==
    /\ LangChecks
    /\ (InBody /\ IsVerticalCall(TopNode)) => state.lang.dir = Top.snap.lang.dir

(* C5 amended: a lang call with a vertical dir records one diagnostic and
   returns its template; the vertical value is dropped, so the direction in
   the body is the prior one when no language code was given and the
   default direction of the language code when one was given. *)
C5_VerticalDir ==
    /\ LangChecks
    /\ (InBody /\ IsVerticalCall(TopNode)) =>
          state.lang.dir = (IF IsSome(TopNode.args.iso)
                            THEN lang_dir(Get(TopNode.args.iso))
                            ELSE Top.snap.lang.dir)

W_C5 ==
    /\ InBody
    /\ IsVerticalCall(TopNode)
    /\ TopNode.args.iso = Some(<<"h","e">>)
    /\ Top.snap.lang.dir = "LTR"
    /\ state.lang.dir = "RTL"
    /\ diags = 1

(* C6: the language direction is on the horizontal axis in every state of
   an execution, and in every saved state. *)
C6_Horizontal ==
    Running =>
        /\ Axis(state.lang.dir) = "Horizontal"
        /\ \A k \in 1..Len(stack) : Axis(stack[k].snap.lang.dir) = "Horizontal"

W_C6 ==
    /\ InBody
    /\ IsVerticalCall(TopNode)
    /\ TopNode.args.iso = None
    /\ Top.snap.lang.dir = "RTL"
    /\ state.lang.dir = "RTL"

IsStr(v) == v.t = "str"
IsFamilyLike(v) == v.t \in {"str", "family"}
StringsOf(a) == LET strs == SelectSeq(a, IsStr) IN [i \in 1..Len(strs) |-> to_lowercase(strs[i].s)]
NamedOf(a) == LET l == StringsOf(a) IN [i \in 1..Len(l) |-> Named(l[i])]
FamiliesOf(a) ==
    LET fs == SelectSeq(a, IsFamilyLike) IN
    [i \in 1..Len(fs) |-> IF fs[i].t = "str" THEN Named(to_lowercase(fs[i].s)) ELSE Generic(fs[i].g)]

StrCoercion ==
    castIn.t = "str" =>
        /\ castOut.target = "FontDef" => castOut.out = Some(<<Named(to_lowercase(castIn.s))>>)
        /\ castOut.target \in {"FamilyDef", "serif"} => castOut.out = Some(<<to_lowercase(castIn.s)>>)

(* C7 as stated: a string coerces to the one-element list of its lowercased
   form; an array coerces to the lowercased forms of its string elements,
   in order, every other element dropped, for family and generic lists. *)
C7_Coercion_Original ==
    /\ StrCoercion
    /\ castIn.t = "array" =>
        /\ castOut.target = "FontDef" => castOut.out = Some(NamedOf(castIn.a))
        /\ castOut.target \in {"FamilyDef", "serif"} => castOut.out = Some(StringsOf(castIn.a))

(* C7 amended: as stated for the generic lists (serif, sans-serif,
   monospace); for the family list an array yields, in order, the lowercased
   named family of each string element and each element that already is a
   font family value unchanged, every other element dropped. *)
C7_Coercion ==
    /\ StrCoercion
    /\ castIn.t = "array" =>
        /\ castOut.target = "FontDef" => castOut.out = Some(FamiliesOf(castIn.a))
        /\ castOut.target \in {"FamilyDef", "serif"} => castOut.out = Some(StringsOf(castIn.a))
    /\ (castOut.target = "serif" /\ castIn = ArrayV(<<StrV(Times), StrV(Georgia)>>)) =>
          castOut.out = Some(<<times, georgia>>)

W_C7 ==
    /\ castIn = ArrayV(<<FamilyV("Serif"), IntV(3), StrV(Times)>>)
    /\ castOut.target = "FontDef"
    /\ castOut.out = Some(<<Generic("Serif"), Named(times)>>)

(* C8: the size a font closure writes is its captured size resolved against
   the size the context held when the closure ran. *)
C8_RelativeSize ==
    (InBody /\ TopNode.cmd = "font" /\ IsSome(TopNode.cap.size)) =>
        state.font.size = Resolve(Get(TopNode.cap.size), Top.snap.font.size)

W_C8 ==
    /\ InBody
    /\ TopNode.cmd = "font"
    /\ TopNode.cap.size = Some(Lin(200, 0))
    /\ Top.snap.font.size = 14
    /\ state.font.size = 28

FontApplied(a, old, new) ==
    /\ IsSome(a.psize) => new.size = Resolve(Get(a.psize), old.size)
    /\ (a.psize = None /\ IsSome(a.size)) => new.size = Resolve(Get(a.size), old.size)
    /\ IsSome(a.style) => new.variant.style = Get(a.style)
    /\ IsSome(a.weight) => new.variant.weight = Get(a.weight)
    /\ IsSome(a.stretch) => new.variant.stretch = Get(a.stretch)
    /\ IsSome(a.top_edge) => new.top_edge = Get(a.top_edge)
    /\ IsSome(a.bottom_edge) => new.bottom_edge = Get(a.bottom_edge)
    /\ IsSome(a.fill) => new.fill = PaintColor(Get(a.fill))
    /\ (IsSome(a.serif) /\ Get(a.serif).t = "array") => new.families.serif = StringsOf(Get(a.serif).a)
    /\ (IsSome(a.sans_serif) /\ Get(a.sans_serif).t = "str") =>
          new.families.sans_serif = <<to_lowercase(Get(a.sans_serif).s)>>
    /\ (a.pos = <<>> /\ IsSome(a.family) /\ Get(a.family).t = "array") =>
          new.families.list = FamiliesOf(Get(a.family).a)
    /\ a.pos # <<>> => new.families.list = FamiliesOf(a.pos)

ParApplied(a, old, new) ==
    /\ IsSome(a.spacing) => new.spacing = Get(a.spacing)
    /\ IsSome(a.leading) => new.leading = Get(a.leading)
    /\ IsSome(a.word_spacing) => new.word_spacing = Get(a.word_spacing)

LangApplied(a, old, new) ==
    /\ (IsSome(a.dir) /\ Axis(Get(a.dir)) = "Horizontal") => new.dir = Get(a.dir)
    /\ (IsSome(a.iso) /\ ~(IsSome(a.dir) /\ Axis(Get(a.dir)) = "Horizontal")) =>
          new.dir = lang_dir(Get(a.iso))

LineApplied(a, slot) ==
    IF IsSome(LineThickness(a)) /\ IsZero(Get(LineThickness(a)))
    THEN slot = None
    ELSE /\ IsSome(slot)
         /\ Get(slot).thickness = LineThickness(a)
         /\ IsSome(a.pstroke) => Get(slot).stroke = Some(PaintColor(Get(a.pstroke)))
         /\ (a.pstroke = None /\ IsSome(a.stroke)) => Get(slot).stroke = Some(PaintColor(Get(a.stroke)))
         /\ Get(slot).offset = a.offset
         /\ IsSome(a.extent) => Get(slot).extent = Get(a.extent)

(* every option the call set is in the state *)
Applied(n, old, new) ==
    CASE n.cmd = "font" -> FontApplied(n.args, old.font, new.font)
      [] n.cmd = "par" -> ParApplied(n.args, old.par, new.par)
      [] n.cmd = "lang" -> LangApplied(n.args, old.lang, new.lang)
      [] n.cmd \in LineCmds -> LineApplied(n.args, new.font[Substate(n.cmd)])

(* C9: a call without a body still returns a template (every call adds one
   function node to the document); that template has an empty body, and
   executing it writes every option that was set before the body runs. *)
C9_MissingBody ==
    /\ calls = CountNodes(AnyNode, doc)
    /\ Running =>
         \A k \in 1..Len(stack) :
            (IsSome(stack[k].func) /\ ~Get(stack[k].func).hasBody) =>
               /\ stack[k].tpl = <<>>
               /\ (k = Len(stack) /\ stack[k].pc # "apply") =>
                     Applied(Get(stack[k].func), stack[k].snap, state)

W_C9 ==
    /\ InBody
    /\ Top.pc = "body"
    /\ ~TopNode.hasBody
    /\ TopNode.cmd = "font"
    /\ TopNode.args.size = Some(Lin(0, 12))
    /\ TopNode.args.psize = None
    /\ state.font.size = 12
    /\ Top.tpl = <<>>

(* C10: a par or lang closure triggers exactly one paragraph break, after
   its option writes and before the first node of its body; no other
   closure triggers one. *)
C10_ParbreakOrder ==
    /\ Running =>
         \A k \in 1..Len(stack) :
            IsSome(stack[k].func) =>
               LET fr == stack[k]
                   n == Get(fr.func)
               IN /\ fr.pc # "body" => (fr.breaks = 0 /\ fr.i = 1 /\ k = Len(stack))
                  /\ fr.pc = "parbreak" =>
                        /\ IsBreaking(n)
                        /\ Applied(n, fr.snap, state)
                        /\ AbsentInherit(n, fr.snap, state)
                  /\ fr.pc = "body" => fr.breaks = (IF IsBreaking(n) THEN 1 ELSE 0)
    /\ phase = "done" => parbreaks = CountNodes(IsBreaking, doc)

W_C10 ==
    /\ InBody
    /\ Top.pc = "body"
    /\ TopNode.cmd = "par"
    /\ NoOptions(TopNode)
    /\ Top.tpl = <<>>
    /\ Top.breaks = 1
    /\ parbreaks = 2

====
